---- MODULE Spec2Model ----
(***************************************************************************)
(* SymptomSync resource layer: the relational ConnectionPool               *)
(* (repository/connection_pool.py), Connection.execute                     *)
(* (repository/connection.py, models/query_result.py) and the retry        *)
(* decorator of the key-value client (src/api/clients/redis_client.py).    *)
(*                                                                         *)
(* Three groups of variables, one per component.  Each specification       *)
(* drives one component and leaves the other two in their initial state.   *)
(***************************************************************************)
EXTENDS Integers, Sequences, FiniteSets, TLC

(***************************************************************************)
(* Bounds of the model.                                                    *)
(***************************************************************************)
\* number of caller threads using the pool
NumThreads == 2
\* cap on raw handles ever opened (only reachable past the capacity by a race)
MaxCreated == 4
\* seconds the wall clock advances between two observations of a waiter
TickStep == 15
\* number of get_connection calls started in a concurrent run
MaxConcCalls == 7
\* number of cursors the driver opens for one Connection
MaxCursors == 3
\* number of callers using the key-value client at the same time
NumCallers == 2
MaxCloses == 3

(***************************************************************************)
(* Program constants of the pool.                                          *)
(***************************************************************************)
\* ConnectionPool.__init__: self.max_connections = 3
InitialMaxConnections == 3
\* wait_and_pop_connection: timeout = 30
timeout == 30

Threads == 1..NumThreads
ConnIds == 1..MaxCreated

VARIABLES
    \* ---- ConnectionPool object
    max_connections,         \* self.max_connections (remaining capacity, counted down)
    available_connections,   \* self.available_connections (list, top of stack last)
    \* ---- callers of the pool
    pc,                      \* position of each thread inside get_connection
    held,                    \* held[t][c]: how many times t was handed c and has not released it
    result,                  \* the last pool call to finish: who called, what came back
    elapsed,                 \* time.time() - start_time of a waiting thread, capped at timeout
    local_conn,              \* local `connection` of _create_connection in flight
    local_max,               \* value of self.max_connections loaded by `-= 1` in flight
    \* ---- observers (not program state)
    created,                 \* number of raw handles opened by psycopg2.connect
    any_release,             \* release_connection has been called at least once
    rel_since,               \* rel_since[t]: a release happened since t entered the wait
    calls_left,              \* get_connection calls a concurrent run may still start
    \* ---- one Connection object and its driver handle
    cursor_attr,             \* self.cursor: 0 while the attribute does not exist, else a cursor
    open_cursors,            \* cursors the driver has opened and nobody has closed
    n_cursors,               \* cursors the driver has opened so far
    exec_call,               \* the last execute call: its arguments, the driver's behaviour, its outcome
    psycopg2_conn,           \* self.psycopg2_conn: "handle", or "None" when the Connection was built without one
    handle_closed,           \* the driver handle has been closed
    conn_call,               \* the last commit, rollback or close: what the handle did, how the call ended
    closes,                  \* close calls on this Connection so far, capped at MaxCloses
    \* ---- calls of typed operations on one RedisClient, one slot per caller
    r_pc,                    \* "idle", "attempt" (about to call func), "sleep", "done"
    r_op,                    \* the typed operation called
    r_attempt,               \* loop variable `attempt` of the retry wrapper
    r_last_exception,        \* last_exception of the retry wrapper
    r_log,                   \* what the remote call did on each attempt so far
    r_sleeps,                \* the time.sleep durations so far, in milliseconds
    r_outcome,               \* how the call ended
    \* ---- the RedisClient object
    config,                  \* self.config: the retry settings of the RedisConfig passed in
    \* ---- one key of the store, and the last calls that touched it
    kv_store,                \* what the store holds under the key
    kv_written,              \* the value of the last set_kv (index into Values), 0 before any
    kv_get,                  \* the last get: its flag, what the store held, its outcome
    \* ---- health checks
    hc                       \* the last health_check: the remote ping's behaviour, pings made, outcome

poolVars == <<max_connections, available_connections, pc, held, result, elapsed,
              local_conn, local_max, created, any_release, rel_since, calls_left>>

execVars == <<cursor_attr, open_cursors, n_cursors, exec_call>>
lifeVars == <<psycopg2_conn, handle_closed, conn_call, closes>>
connVars == <<execVars, lifeVars>>

redisVars == <<r_pc, r_op, r_attempt, r_last_exception, r_log, r_sleeps, r_outcome>>

clientVars == <<config, kv_store, kv_written, kv_get, hc>>

vars == <<poolVars, connVars, redisVars, clientVars>>

\* what each component leaves alone
OutsidePool == <<connVars, redisVars, clientVars>>
OutsideConnection == <<poolVars, redisVars, clientVars>>
OutsideRedis == <<poolVars, connVars, clientVars>>
OutsideClient == <<poolVars, connVars, redisVars>>

(***************************************************************************)
(* Values.                                                                 *)
(***************************************************************************)
\* return values / exceptions of get_connection
NoCall == [t |-> 0, kind |-> "nocall", conn |-> 0]
Returned(t, c) == [t |-> t, kind |-> "Connection", conn |-> c]
ReturnedNone(t) == [t |-> t, kind |-> "None", conn |-> 0]
RaisedTimeoutError(t) == [t |-> t, kind |-> "TimeoutError", conn |-> 0]
RaisedIndexError(t) == [t |-> t, kind |-> "IndexError", conn |-> 0]
\* release_connection(c) returned
Released(t, c) == [t |-> t, kind |-> "released", conn |-> c]

Min(a, b) == IF a < b THEN a ELSE b

RECURSIVE SumHeld(_, _, _)
SumHeld(h, c, ts) ==
    IF ts = {} THEN 0
    ELSE LET t == CHOOSE x \in ts : TRUE
         IN  h[t][c] + SumHeld(h, c, ts \ {t})

\* how many callers' references to c are outstanding
HeldCount(c) == SumHeld(held, c, Threads)

RECURSIVE CountIn(_, _)
CountIn(s, c) ==
    IF s = <<>> THEN 0
    ELSE (IF Head(s) = c THEN 1 ELSE 0) + CountIn(Tail(s), c)

(***************************************************************************)
(* list.pop() and list.append of available_connections.                    *)
(***************************************************************************)
\* a pool that reuses the oldest idle Connection: pop(0)
PopIndexFirst(avail) == 1

\* index removed by list.pop(): the last element
PopIndex(avail) == Len(avail)

PopValue(avail) == avail[PopIndex(avail)]

PopRest(avail) ==
    [i \in 1..(Len(avail) - 1) |->
        IF i < PopIndex(avail) THEN avail[i] ELSE avail[i + 1]]

\* _add_to_available_connections
_add_to_available_connections(avail, c) == Append(avail, c)

\* a pool that forgets to count a creation against its capacity
DecrementCapacityForgotten(m) == m

\* `self.max_connections -= 1`
DecrementCapacity(m) == m - 1

\* the idle list after _create_connection has built connection c
CreateRegisters(avail, c) == _add_to_available_connections(avail, c)

Give(h, t, c) == [h EXCEPT ![t][c] = @ + 1]
Take(h, t, c) == [h EXCEPT ![t][c] = @ - 1]

PoolInit ==
    /\ max_connections = InitialMaxConnections
    /\ available_connections = <<>>
    /\ pc = [t \in Threads |-> "idle"]
    /\ held = [t \in Threads |-> [c \in ConnIds |-> 0]]
    /\ result = NoCall
    /\ elapsed = [t \in Threads |-> 0]
    /\ local_conn = [t \in Threads |-> 0]
    /\ local_max = [t \in Threads |-> 0]
    /\ created = 0
    /\ any_release = FALSE
    /\ rel_since = [t \in Threads |-> FALSE]
    /\ calls_left = MaxConcCalls

(***************************************************************************)
(* Sequential use: every call runs to its return (or into the polling      *)
(* wait) without another call overlapping it.                              *)
(***************************************************************************)
\* get_connection, lines 13-21, with _create_connection inlined (26-32)
get_connection(t) ==
    /\ pc[t] = "idle"
    /\ UNCHANGED OutsidePool
    /\ IF Len(available_connections) > 0
       THEN LET c == PopValue(available_connections)
            IN  /\ available_connections' = PopRest(available_connections)
                /\ held' = Give(held, t, c)
                /\ result' = Returned(t, c)
                /\ UNCHANGED <<max_connections, created, pc, elapsed, rel_since>>
       ELSE IF max_connections > 0
       THEN LET c == created + 1
            IN  /\ created < MaxCreated
                /\ created' = c
                /\ available_connections' = CreateRegisters(available_connections, c)
                /\ max_connections' = DecrementCapacity(max_connections)
                /\ held' = Give(held, t, c)
                /\ result' = Returned(t, c)
                /\ UNCHANGED <<pc, elapsed, rel_since>>
       ELSE /\ pc' = [pc EXCEPT ![t] = "wait"]
            /\ elapsed' = [elapsed EXCEPT ![t] = 0]
            /\ rel_since' = [rel_since EXCEPT ![t] = FALSE]
            /\ UNCHANGED <<max_connections, available_connections, created, held, result>>
    /\ UNCHANGED <<local_conn, local_max, any_release, calls_left>>

\* a wait loop with its comparison the wrong way round
WithinWindowInverted(e) == e > timeout

\* loop condition of wait_and_pop_connection: time.time() - start_time < timeout
WithinWindow(e) == e < timeout

\* one iteration of wait_and_pop_connection's loop, lines 40-45, and the
\* return of get_connection's else branch, line 21 (no return statement)
wait_and_pop_connection(t) ==
    /\ pc[t] = "wait"
    /\ UNCHANGED OutsidePool
    /\ IF WithinWindow(elapsed[t])
       THEN IF Len(available_connections) > 0
            THEN LET c == PopValue(available_connections)
                 IN  /\ available_connections' = PopRest(available_connections)
                     /\ result' = ReturnedNone(t)
                     /\ pc' = [pc EXCEPT ![t] = "idle"]
                     /\ elapsed' = [elapsed EXCEPT ![t] = 0]
                     /\ rel_since' = [rel_since EXCEPT ![t] = FALSE]
            ELSE \* time.sleep(0.1)
                 /\ UNCHANGED <<available_connections, result, pc, elapsed, rel_since>>
       ELSE /\ result' = RaisedTimeoutError(t)
            /\ pc' = [pc EXCEPT ![t] = "idle"]
            /\ elapsed' = [elapsed EXCEPT ![t] = 0]
            /\ rel_since' = [rel_since EXCEPT ![t] = FALSE]
            /\ UNCHANGED available_connections
    /\ UNCHANGED <<max_connections, held, local_conn, local_max, created, any_release,
                   calls_left>>

\* release_connection, lines 23-24, by a caller that holds c
release_connection(t, c) ==
    /\ pc[t] = "idle"
    /\ UNCHANGED OutsidePool
    /\ held[t][c] > 0
    /\ held' = Take(held, t, c)
    /\ available_connections' = _add_to_available_connections(available_connections, c)
    /\ any_release' = TRUE
    /\ rel_since' = [u \in Threads |-> IF pc[u] = "idle" THEN rel_since[u] ELSE TRUE]
    /\ result' = Released(t, c)
    /\ UNCHANGED <<max_connections, pc, elapsed, local_conn, local_max, created, calls_left>>

\* the wall clock read by time.time() moves on while some thread waits
Tick ==
    /\ UNCHANGED OutsidePool
    /\ \E t \in Threads : pc[t] \in {"wait", "wait_pop"} /\ elapsed[t] < timeout
    /\ elapsed' = [t \in Threads |->
                      IF pc[t] \in {"wait", "wait_pop"}
                      THEN Min(elapsed[t] + TickStep, timeout)
                      ELSE elapsed[t]]
    /\ UNCHANGED <<max_connections, available_connections, pc, held, result,
                   local_conn, local_max, created, any_release, rel_since, calls_left>>

(***************************************************************************)
(* Concurrent use: the pool takes no lock, so threads interleave between   *)
(* the statements of get_connection, _create_connection and                *)
(* wait_and_pop_connection.  One action per statement; list.pop and        *)
(* list.append are single indivisible steps of the interpreter, the        *)
(* read-modify-write `self.max_connections -= 1` is a load and a store.    *)
(***************************************************************************)
\* line 14: if len(self.available_connections) > 0
c_len_check(t) ==
    /\ pc[t] = "idle"
    /\ UNCHANGED OutsidePool
    /\ calls_left > 0
    /\ calls_left' = calls_left - 1
    /\ pc' = [pc EXCEPT ![t] = IF Len(available_connections) > 0 THEN "pop" ELSE "check_max"]
    /\ UNCHANGED <<max_connections, available_connections, held, result, elapsed,
                   local_conn, local_max, created, any_release, rel_since>>

\* lines 15-16: connection = self.available_connections.pop(); return connection
c_pop(t) ==
    /\ pc[t] = "pop"
    /\ UNCHANGED OutsidePool
    /\ pc' = [pc EXCEPT ![t] = "idle"]
    /\ IF Len(available_connections) > 0
       THEN LET c == PopValue(available_connections)
            IN  /\ available_connections' = PopRest(available_connections)
                /\ held' = Give(held, t, c)
                /\ result' = Returned(t, c)
       ELSE \* pop from empty list
            /\ result' = RaisedIndexError(t)
            /\ UNCHANGED <<available_connections, held>>
    /\ UNCHANGED <<max_connections, elapsed, local_conn, local_max, created,
                   any_release, rel_since, calls_left>>

\* line 17: elif self.max_connections > 0, else line 21 enters the wait (38-39)
c_check_max(t) ==
    /\ pc[t] = "check_max"
    /\ UNCHANGED OutsidePool
    /\ IF max_connections > 0
       THEN /\ pc' = [pc EXCEPT ![t] = "connect"]
            /\ UNCHANGED <<elapsed, rel_since>>
       ELSE /\ pc' = [pc EXCEPT ![t] = "wait"]
            /\ elapsed' = [elapsed EXCEPT ![t] = 0]
            /\ rel_since' = [rel_since EXCEPT ![t] = FALSE]
    /\ UNCHANGED <<max_connections, available_connections, held, result,
                   local_conn, local_max, created, any_release, calls_left>>

\* lines 28-29: psycopg2.connect(...); connection = Connection(psycopg2_conn)
c_connect(t) ==
    /\ pc[t] = "connect"
    /\ UNCHANGED OutsidePool
    /\ created < MaxCreated
    /\ created' = created + 1
    /\ local_conn' = [local_conn EXCEPT ![t] = created + 1]
    /\ pc' = [pc EXCEPT ![t] = "append"]
    /\ UNCHANGED <<max_connections, available_connections, held, result, elapsed,
                   local_max, any_release, rel_since, calls_left>>

\* line 30: self._add_to_available_connections(connection)
c_append(t) ==
    /\ pc[t] = "append"
    /\ UNCHANGED OutsidePool
    /\ available_connections' = CreateRegisters(available_connections, local_conn[t])
    /\ pc' = [pc EXCEPT ![t] = "dec_load"]
    /\ UNCHANGED <<max_connections, held, result, elapsed, local_conn, local_max,
                   created, any_release, rel_since, calls_left>>

\* line 31, first half: load self.max_connections
c_dec_load(t) ==
    /\ pc[t] = "dec_load"
    /\ UNCHANGED OutsidePool
    /\ local_max' = [local_max EXCEPT ![t] = max_connections]
    /\ pc' = [pc EXCEPT ![t] = "dec_store"]
    /\ UNCHANGED <<max_connections, available_connections, held, result, elapsed,
                   local_conn, created, any_release, rel_since, calls_left>>

\* line 31, second half: store the decremented value; lines 32 and 19: return
c_dec_store(t) ==
    /\ pc[t] = "dec_store"
    /\ UNCHANGED OutsidePool
    /\ max_connections' = DecrementCapacity(local_max[t])
    /\ held' = Give(held, t, local_conn[t])
    /\ result' = Returned(t, local_conn[t])
    /\ local_conn' = [local_conn EXCEPT ![t] = 0]
    /\ local_max' = [local_max EXCEPT ![t] = 0]
    /\ pc' = [pc EXCEPT ![t] = "idle"]
    /\ UNCHANGED <<available_connections, elapsed, created, any_release, rel_since, calls_left>>

\* lines 40-41, 43, 45: loop test, idle-list test, sleep or TimeoutError
c_wait_check(t) ==
    /\ pc[t] = "wait"
    /\ UNCHANGED OutsidePool
    /\ IF WithinWindow(elapsed[t])
       THEN /\ pc' = [pc EXCEPT ![t] =
                        IF Len(available_connections) > 0 THEN "wait_pop" ELSE "wait"]
            /\ UNCHANGED <<result, elapsed, rel_since>>
       ELSE /\ result' = RaisedTimeoutError(t)
            /\ pc' = [pc EXCEPT ![t] = "idle"]
            /\ elapsed' = [elapsed EXCEPT ![t] = 0]
            /\ rel_since' = [rel_since EXCEPT ![t] = FALSE]
    /\ UNCHANGED <<max_connections, available_connections, held, local_conn,
                   local_max, created, any_release, calls_left>>

\* line 42: return self.available_connections.pop(); line 21 drops the value
c_wait_pop(t) ==
    /\ pc[t] = "wait_pop"
    /\ UNCHANGED OutsidePool
    /\ pc' = [pc EXCEPT ![t] = "idle"]
    /\ elapsed' = [elapsed EXCEPT ![t] = 0]
    /\ rel_since' = [rel_since EXCEPT ![t] = FALSE]
    /\ IF Len(available_connections) > 0
       THEN /\ available_connections' = PopRest(available_connections)
            /\ result' = ReturnedNone(t)
       ELSE /\ result' = RaisedIndexError(t)
            /\ UNCHANGED available_connections
    /\ UNCHANGED <<max_connections, held, local_conn, local_max, created, any_release, calls_left>>

\* C5: under every interleaving of the threads' steps no more Connections are
\* created than the capacity and no thread pops from an idle list that another
\* thread has just emptied.
C5_SerializedAccess ==
    /\ created <= InitialMaxConnections
    /\ result.kind # "IndexError"

(***************************************************************************)
(* Connection.execute (repository/connection.py) and QueryResult           *)
(* (models/query_result.py).  Statement texts are sequences of characters. *)
(***************************************************************************)
Whitespace == {" ", "\t", "\n"}

\* str.lower on the characters the statements use
ToLowerChar(ch) ==
    CASE ch = "S" -> "s" [] ch = "E" -> "e" [] ch = "L" -> "l" [] ch = "C" -> "c"
      [] ch = "T" -> "t" [] ch = "I" -> "i" [] ch = "N" -> "n" [] ch = "R" -> "r"
      [] ch = "U" -> "u" [] ch = "P" -> "p" [] ch = "D" -> "d" [] ch = "A" -> "a"
      [] ch = "F" -> "f" [] ch = "O" -> "o" [] ch = "M" -> "m"
      [] OTHER -> ch

Lower(str) == [i \in 1..Len(str) |-> ToLowerChar(str[i])]

RECURSIVE LStrip(_)
LStrip(str) ==
    IF str # <<>> /\ Head(str) \in Whitespace THEN LStrip(Tail(str)) ELSE str

RECURSIVE RStrip(_)
RStrip(str) ==
    IF str # <<>> /\ str[Len(str)] \in Whitespace
    THEN RStrip(SubSeq(str, 1, Len(str) - 1))
    ELSE str

\* str.strip
Strip(str) == RStrip(LStrip(str))

\* str.startswith
StartsWith(str, prefix) ==
    /\ Len(str) >= Len(prefix)
    /\ SubSeq(str, 1, Len(prefix)) = prefix

\* line 17: query.strip().lower().startswith("select")
IsSelect(query) == StartsWith(Lower(Strip(query)), <<"s", "e", "l", "e", "c", "t">>)

\* the statements callers send
Queries ==
    << <<"s", "e", "l", "e", "c", "t", " ", "1">>,
       <<" ", "\t", "S", "E", "L", "E", "C", "T", " ", "*", " ", "F", "R", "O", "M", " ", "t", "\n">>,
       <<"S", "e", "l", "e", "c", "t">>,
       <<"i", "n", "s", "e", "r", "t", " ", "i", "n", "t", "o", " ", "t">>,
       <<" ", "U", "P", "D", "A", "T", "E", " ", "t">>,
       <<"s", "e", "l", "e", "c">>,
       <<"d", "e", "l", "e", "t", "e", " ", "s", "e", "l", "e", "c", "t">> >>

\* params: None, an empty dict, a dict with entries
ParamsValues == {"None", "empty", "dict"}

\* row sets cursor.fetchall() can return
RowSets == {<<>>, <<[id |-> 1]>>, <<[id |-> 1], [id |-> 2]>>}

\* str(e) of the exceptions the driver raises
Descriptions == {"syntax error", "connection already closed"}

\* what the driver does during one execute call: which of its calls raises
\* (if that call is reached), with what description, and what a fetch returns
DriverBehaviours ==
    [fail : {"none", "cursor", "execute", "fetchall"}, error : Descriptions, rows : RowSets]

\* a local variable or attribute that has, or has not, been assigned
Unbound == [bound |-> FALSE, val |-> <<>>]
Bound(v) == [bound |-> TRUE, val |-> v]

\* QueryResult.__init__, lines 2-5: success and error_message are stored,
\* `self.rows: list[dict]` is an annotation and stores nothing
QueryResult(rows, success, error_message) ==
    [kind |-> "QueryResult", rows |-> Unbound, success |-> success,
     error_message |-> error_message, exc |-> "none"]

ExecReturnedNone ==
    [kind |-> "None", rows |-> Unbound, success |-> FALSE, error_message |-> "", exc |-> "none"]

ExecRaised(exc) ==
    [kind |-> "raised", rows |-> Unbound, success |-> FALSE, error_message |-> "", exc |-> exc]

NoExecute ==
    [kind |-> "nocall", rows |-> Unbound, success |-> FALSE, error_message |-> "", exc |-> "none"]

\* line 14: the cursor attribute after `self.cursor = self.psycopg2_conn.cursor()`
CursorAfterOpen(old, d, fresh) == IF d.fail = "cursor" THEN old ELSE fresh

\* lines 14-18: one of the driver calls made inside the try block raised
RaisedInTry(query, d) ==
    \/ d.fail = "cursor"
    \/ d.fail = "execute"
    \/ d.fail = "fetchall" /\ IsSelect(query)

\* lines 18 and 21: the local `rows` when the try block is left
RowsLocal(query, d) ==
    IF RaisedInTry(query, d) THEN Unbound
    ELSE IF IsSelect(query) THEN Bound(d.rows)
    ELSE Bound(<<>>)

\* lines 13-29: what the try/except part of execute produces before `finally`
ExecuteBody(query, d) ==
    IF RaisedInTry(query, d)
    THEN \* line 29 reads the local `rows`
         IF RowsLocal(query, d).bound
         THEN QueryResult(RowsLocal(query, d).val, FALSE, d.error)
         ELSE ExecRaised("UnboundLocalError")
    ELSE IF IsSelect(query)
    THEN \* the if branch has no return: the function falls off its end
         ExecReturnedNone
    ELSE \* line 23
         QueryResult(RowsLocal(query, d).val, TRUE, "")

\* lines 31-32: `self.cursor.close()` runs last and its exception wins
ExecuteOutcome(query, d, cursor_after) ==
    IF cursor_after = 0 THEN ExecRaised("AttributeError") ELSE ExecuteBody(query, d)

NoConnCall == [op |-> "none", handle |-> "none", out |-> "none"]

ConnInit ==
    /\ cursor_attr = 0
    /\ open_cursors = {}
    /\ n_cursors = 0
    /\ exec_call = [query |-> 1, params |-> "None", driver_call |-> "none",
                    driver |-> [fail |-> "none", error |-> "syntax error", rows |-> <<>>],
                    out |-> NoExecute]
    /\ psycopg2_conn = "handle"
    /\ handle_closed = FALSE
    /\ conn_call = NoConnCall
    /\ closes = 0

\* Connection.execute, lines 12-32
execute(qi, params, d) ==
    /\ UNCHANGED <<OutsideConnection, lifeVars>>
    /\ d.fail # "cursor" => n_cursors < MaxCursors
    \* no handle, or a closed one, gives no cursor
    /\ (psycopg2_conn = "None" \/ handle_closed) => d.fail = "cursor"
    /\ LET query == Queries[qi]
           opened == d.fail # "cursor"
           fresh == n_cursors + 1
           cursor_after == CursorAfterOpen(cursor_attr, d, fresh)
       IN  /\ n_cursors' = IF opened THEN fresh ELSE n_cursors
           /\ cursor_attr' = cursor_after
           /\ open_cursors' = (IF opened THEN open_cursors \cup {fresh} ELSE open_cursors)
                                 \ {cursor_after}
           /\ exec_call' =
                [query |-> qi, params |-> params,
                 \* line 15: params are passed on only when truthy
                 driver_call |-> IF ~opened THEN "none"
                                 ELSE IF params = "dict" THEN "execute(query, params)"
                                 ELSE "execute(query)",
                 driver |-> d,
                 out |-> ExecuteOutcome(query, d, cursor_after)]

\* the last execute call met a driver failure
ExecFailed == exec_call.out.kind # "nocall" /\ RaisedInTry(Queries[exec_call.query], exec_call.driver)

\* the last execute call ran a select that the driver executed without error
ExecSelectOk ==
    /\ exec_call.out.kind # "nocall"
    /\ IsSelect(Queries[exec_call.query])
    /\ ~RaisedInTry(Queries[exec_call.query], exec_call.driver)

\* C9: on a driver failure execute does not raise, it returns a QueryResult with
\* success false, the failure's description as error_message, and rows an
\* empty sequence.
C9_FailureIsCaptured ==
    ExecFailed =>
        /\ exec_call.out.kind = "QueryResult"
        /\ exec_call.out.success = FALSE
        /\ exec_call.out.error_message = exec_call.driver.error
        /\ exec_call.out.error_message # ""
        /\ exec_call.out.rows = Bound(<<>>)

\* C10: a select that the driver executes without error returns a QueryResult
\* with success true whose rows are the fetched row set.
C10_SelectReturnsFetchedRows ==
    ExecSelectOk =>
        /\ exec_call.out.kind = "QueryResult"
        /\ exec_call.out.success = TRUE
        /\ exec_call.out.rows = Bound(exec_call.driver.rows)

\* the last execute call ran a statement other than a select that the driver
\* executed without error
ExecMutationOk ==
    /\ exec_call.out.kind # "nocall"
    /\ ~IsSelect(Queries[exec_call.query])
    /\ ~RaisedInTry(Queries[exec_call.query], exec_call.driver)

\* C11: a statement other than a select that the driver executes without error
\* returns a QueryResult with success true, an empty error_message, and rows
\* that read as the empty sequence.
C11_MutationReturnsEmptyRows ==
    ExecMutationOk =>
        /\ exec_call.out.kind = "QueryResult"
        /\ exec_call.out.success = TRUE
        /\ exec_call.out.error_message = ""
        /\ exec_call.out.rows = Bound(<<>>)

\* the last execute call could not open a cursor
ExecNoCursor == exec_call.out.kind # "nocall" /\ exec_call.driver.fail = "cursor"

\* C12: when an execute call ends, every cursor opened by an execute call is
\* closed, and the release step of a call that could not open a cursor does
\* not raise.
C12_CursorReleased ==
    exec_call.out.kind # "nocall" =>
        /\ open_cursors = {}
        /\ ExecNoCursor => exec_call.out # ExecRaised("AttributeError")

\* what a call on the driver handle does: it returns, or raises an error with
\* one of the descriptions; a call on a closed handle raises, except close
HandleBehaviours == {"ok"} \cup Descriptions

\* what `self.psycopg2_conn.<method>()` does, given the handle's behaviour b:
\* without a handle the attribute lookup on None raises AttributeError
HandleCall(b) == IF psycopg2_conn = "None" THEN "AttributeError" ELSE b

\* a handler that lets the failure out
BestEffortPropagates(did) == IF did \in {"ok", "skipped"} THEN "returned" ELSE "raised"

\* lines 35-40, 43-48, 52-57: try / except Exception / logging.error: the call
\* returns whatever the handle did
BestEffort(did) == "returned"

\* Connection.__init__, lines 7-10: a Connection built on a handle, or on None
Connection_init(h) ==
    /\ UNCHANGED <<OutsideConnection, open_cursors, n_cursors, exec_call>>
    /\ cursor_attr' = 0
    /\ psycopg2_conn' = h
    /\ handle_closed' = FALSE
    /\ conn_call' = NoConnCall
    /\ closes' = 0

\* Connection.commit, lines 34-40
commit(b) ==
    /\ UNCHANGED <<OutsideConnection, execVars, psycopg2_conn, handle_closed, closes>>
    /\ handle_closed => b # "ok"
    /\ conn_call' = [op |-> "commit", handle |-> HandleCall(b), out |-> BestEffort(HandleCall(b))]

\* Connection.rollback, lines 42-48
rollback(b) ==
    /\ UNCHANGED <<OutsideConnection, execVars, psycopg2_conn, handle_closed, closes>>
    /\ handle_closed => b # "ok"
    /\ conn_call' = [op |-> "rollback", handle |-> HandleCall(b),
                     out |-> BestEffort(HandleCall(b))]

\* Connection.close, lines 50-57: the handle is closed only if there is one
close(b) ==
    /\ UNCHANGED <<OutsideConnection, execVars, psycopg2_conn>>
    /\ closes' = Min(closes + 1, MaxCloses)
    /\ LET did == IF psycopg2_conn = "None" THEN "skipped" ELSE b
       IN  /\ conn_call' = [op |-> "close", handle |-> did, out |-> BestEffort(did)]
           /\ handle_closed' = (handle_closed \/ did = "ok")

\* C18: commit, rollback and close never let a failure out; close may be
\* called any number of times, also on a Connection without a handle, and
\* does not raise.
C18_BestEffortNeverRaises ==
    conn_call.op # "none" => conn_call.out = "returned"

\* a repeated close whose handle call failed
C18_Witness ==
    /\ conn_call.op = "close"
    /\ closes >= 2
    /\ conn_call.handle \in Descriptions
    /\ conn_call.out = "returned"

(***************************************************************************)
(* The retry decorator of the key-value client and the typed operations    *)
(* it wraps (src/api/clients/redis_client.py).                             *)
(***************************************************************************)
\* retry_on_connection_error(max_retries=3, delay=0.1, backoff=2.0); every
\* typed operation is decorated with the defaults.  Delays in milliseconds.
max_retries == 3
delay == 100
backoff == 2

Callers == 1..NumCallers

\* typed operations: ping, and two of the twenty that share one shape (get and
\* set_kv stand for delete, exists, expire, ttl, hset, ..., keys, flushdb)
Ops == {"ping", "get", "set_kv"}

\* operations whose remote call sits inside `try: ... except Exception as e:
\* raise RedisOperationError(...)`; ping calls self._client.ping() bare
InnerTryOps == Ops \ {"ping"}

\* what the remote call of one attempt does
RemoteOutcomes == {"ok", "ConnectionError", "TimeoutError", "ResponseError"}

\* line 84: except (redis.ConnectionError, redis.TimeoutError)
Transient == {"ConnectionError", "TimeoutError"}

\* what the decorated function does on one attempt, given the remote call's
\* behaviour: it returns, or raises the named exception
Func(op, remote) ==
    IF remote = "ok" THEN "return"
    ELSE IF op \in InnerTryOps THEN "RedisOperationError"
    ELSE remote

RECURSIVE Pow(_, _)
Pow(b, n) == IF n = 0 THEN 1 ELSE b * Pow(b, n - 1)

\* a linear schedule in place of the exponential one
SleepTimeLinear(attempt) == delay * (attempt + 1)

\* line 87: sleep_time = delay * (backoff**attempt)
SleepTime(attempt) == delay * Pow(backoff, attempt)

\* a wrapper that gives up one retry early
RetriesLeftShort(attempt) == attempt < max_retries - 1

\* line 86: if attempt < max_retries
RetriesLeft(attempt) == attempt < max_retries

NoOutcome == [kind |-> "none", cause |-> "none"]
OpReturned == [kind |-> "returned", cause |-> "none"]
OpRaised(exc, cause) == [kind |-> exc, cause |-> cause]

\* RedisConfig, lines 49-52: the retry settings and their defaults
RedisConfig(m, d, b) == [max_retries |-> m, retry_delay |-> d, backoff_factor |-> b]
DefaultConfig == RedisConfig(3, 100, 2)

\* configurations a client is constructed with
Configs == {DefaultConfig, RedisConfig(0, 100, 2), RedisConfig(5, 50, 3)}

RedisInit ==
    /\ r_pc = [k \in Callers |-> "idle"]
    /\ r_op = [k \in Callers |-> "ping"]
    /\ r_attempt = [k \in Callers |-> 0]
    /\ r_last_exception = [k \in Callers |-> "none"]
    /\ r_log = [k \in Callers |-> <<>>]
    /\ r_sleeps = [k \in Callers |-> <<>>]
    /\ r_outcome = [k \in Callers |-> NoOutcome]

\* one counter shared by all the calls in place of a local of each call
FrameShared(k) == 1

\* lines 78-81: `last_exception` and `attempt` are locals of the wrapper, so
\* each call in flight has its own; Frame(k) is the frame caller k's call uses
Frame(k) == k

\* RedisClient.__init__, lines 110-115: the client is constructed with a
\* configuration, before any caller uses it
RedisClient_init(cfg) ==
    /\ UNCHANGED <<OutsideClient, kv_store, kv_written, kv_get, hc>>
    /\ \A k \in Callers : r_pc[k] = "idle"
    /\ config' = cfg

\* a caller invokes a typed operation: wrapper entry, lines 78-81
r_call(k, op) ==
    /\ UNCHANGED OutsideRedis
    /\ r_pc[k] \in {"idle", "done"}
    /\ r_pc' = [r_pc EXCEPT ![k] = "attempt"]
    /\ r_op' = [r_op EXCEPT ![k] = op]
    /\ r_attempt' = [r_attempt EXCEPT ![Frame(k)] = 0]
    /\ r_last_exception' = [r_last_exception EXCEPT ![k] = "none"]
    /\ r_log' = [r_log EXCEPT ![k] = <<>>]
    /\ r_sleeps' = [r_sleeps EXCEPT ![k] = <<>>]
    /\ r_outcome' = [r_outcome EXCEPT ![k] = NoOutcome]

\* one pass of the loop body, lines 82-96, up to the sleep; lines 98-100 when
\* the loop is exhausted
r_attempt_step(k, remote) ==
    /\ UNCHANGED OutsideRedis
    /\ r_pc[k] = "attempt"
    /\ r_log' = [r_log EXCEPT ![k] = Append(@, remote)]
    /\ LET f == Func(r_op[k], remote)
       IN  IF f = "return"
           THEN /\ r_outcome' = [r_outcome EXCEPT ![k] = OpReturned]
                /\ r_pc' = [r_pc EXCEPT ![k] = "done"]
                /\ UNCHANGED <<r_last_exception, r_sleeps>>
           ELSE IF f \in Transient
           THEN /\ r_last_exception' = [r_last_exception EXCEPT ![k] = f]
                /\ IF RetriesLeft(r_attempt[Frame(k)])
                   THEN /\ r_sleeps' = [r_sleeps EXCEPT ![k] =
                                           Append(@, SleepTime(r_attempt[Frame(k)]))]
                        /\ r_pc' = [r_pc EXCEPT ![k] = "sleep"]
                        /\ UNCHANGED r_outcome
                   ELSE /\ r_outcome' = [r_outcome EXCEPT ![k] =
                                            OpRaised("RedisConnectionError", f)]
                        /\ r_pc' = [r_pc EXCEPT ![k] = "done"]
                        /\ UNCHANGED r_sleeps
           ELSE \* not caught by the wrapper: the exception leaves the call
                /\ r_outcome' = [r_outcome EXCEPT ![k] = OpRaised(f, remote)]
                /\ r_pc' = [r_pc EXCEPT ![k] = "done"]
                /\ UNCHANGED <<r_last_exception, r_sleeps>>
    /\ UNCHANGED <<r_op, r_attempt>>

\* time.sleep returns and the for loop moves to the next attempt, lines 92, 81
r_wake(k) ==
    /\ UNCHANGED OutsideRedis
    /\ r_pc[k] = "sleep"
    /\ r_attempt' = [r_attempt EXCEPT ![Frame(k)] = @ + 1]
    /\ r_pc' = [r_pc EXCEPT ![k] = "attempt"]
    /\ UNCHANGED <<r_op, r_last_exception, r_log, r_sleeps, r_outcome>>

\* every remote call of caller k's operation failed transiently
AlwaysTransient(k) ==
    /\ Len(r_log[k]) >= 1
    /\ \A i \in 1..Len(r_log[k]) : r_log[k][i] \in Transient

\* C8: with max_retries = 3, a typed operation whose remote call always fails
\* transiently makes exactly 4 attempts and then fails with a connection error
\* that wraps the last underlying failure.
C8_RetryBound ==
    \A k \in Callers :
        (r_pc[k] = "done" /\ AlwaysTransient(k)) =>
            /\ Len(r_log[k]) = 4
            /\ r_outcome[k] = OpRaised("RedisConnectionError", r_log[k][Len(r_log[k])])

\* the remote call of caller k's operation failed at once with an error that
\* is neither a connection error nor a timeout
FailedNonTransient(k) ==
    /\ r_pc[k] = "done"
    /\ Len(r_log[k]) >= 1
    /\ r_log[k][1] \notin Transient \cup {"ok"}

\* C13: when the remote call of a typed operation fails with an error that is
\* neither a connection error nor a timeout, the remote call is made exactly
\* once, no backoff sleep happens, and the caller receives an operation error.
C13_NonTransientNotRetried ==
    \A k \in Callers :
        FailedNonTransient(k) =>
            /\ Len(r_log[k]) = 1
            /\ r_sleeps[k] = <<>>
            /\ r_outcome[k].kind = "RedisOperationError"

\* the sleeps of a call that made n attempts, all failed, under base delay d
\* and factor b: d * b^a after failed attempt a, none after the last
Schedule(n, d, b) == [a \in 1..(n - 1) |-> d * Pow(b, a - 1)]

\* C14: the retry settings of the client's configuration govern the wrapper:
\* with max_retries = M in the configuration, an operation whose remote call
\* always fails transiently is attempted exactly M + 1 times, sleeping by the
\* configured retry_delay and backoff_factor.  Stated for the operations whose
\* transient failures reach the wrapper.
C14_ConfigGovernsRetry ==
    \A k \in Callers :
        (r_pc[k] = "done" /\ AlwaysTransient(k) /\ r_op[k] \notin InnerTryOps) =>
            /\ Len(r_log[k]) = config.max_retries + 1
            /\ r_sleeps[k] = Schedule(config.max_retries + 1, config.retry_delay,
                                       config.backoff_factor)

RECURSIVE SeqSum(_)
SeqSum(q) == IF q = <<>> THEN 0 ELSE q[1] + SeqSum(Tail(q))

\* the attempts of caller k's call that failed with an error the wrapper catches
CaughtFailures(k) ==
    Cardinality({i \in 1..Len(r_log[k]) : Func(r_op[k], r_log[k][i]) \in Transient})

\* the retries of caller k's call are exhausted
Exhausted(k) == r_pc[k] = "done" /\ r_outcome[k].kind = "RedisConnectionError"

\* C15: the sleep after failed attempt a (a = 0 .. max_retries - 1) is
\* delay * backoff^a, there is no sleep after the final failed attempt, and a
\* call that exhausts max_retries = 3 has slept delay * (1 + backoff + backoff^2)
\* in total.
C15_BackoffSchedule ==
    \A k \in Callers :
        /\ \A a \in 0..(Len(r_sleeps[k]) - 1) : r_sleeps[k][a + 1] = delay * Pow(backoff, a)
        /\ Len(r_sleeps[k]) = Min(CaughtFailures(k), max_retries)
        /\ Exhausted(k) =>
              SeqSum(r_sleeps[k]) = delay * (1 + backoff + backoff * backoff)

C15_Witness ==
    \E k \in Callers : Exhausted(k) /\ Len(r_sleeps[k]) = 3 /\ Len(r_log[k]) = 4

\* everything the wrapper keeps for caller k's call
Slot(k) == <<r_pc[k], r_op[k], r_attempt[k], r_last_exception[k], r_log[k],
             r_sleeps[k], r_outcome[k]>>

\* the step is one of caller j's call
StepOf(j) == r_pc'[j] # r_pc[j] \/ r_log'[j] # r_log[j]

\* how caller k's call ends, from its own operation and its own failures alone
OwnOutcome(k) ==
    LET last == r_log[k][Len(r_log[k])]
        f == Func(r_op[k], last)
    IN  IF f = "return" THEN OpReturned
        ELSE IF f \in Transient THEN OpRaised("RedisConnectionError", last)
        ELSE OpRaised(f, last)

\* caller k's counter, sleeps and outcome follow from its own failures alone
OwnSchedule(k) ==
    /\ r_attempt[k] = Len(r_sleeps[k]) - (IF r_pc[k] = "sleep" THEN 1 ELSE 0)
    /\ r_sleeps[k] = [a \in 1..Min(CaughtFailures(k), max_retries) |-> SleepTime(a - 1)]
    /\ r_pc[k] = "done" => r_outcome[k] = OwnOutcome(k)

\* C19: the retry sequences of concurrent callers are independent: each call
\* has its own attempt counter and backoff schedule, and a step of one call
\* (a failure it sees, a sleep it ends, its start or end) never changes the
\* attempts, sleeps or outcome of another call, under every interleaving.
C19_IndependentRetries ==
    [][\A k \in Callers :
          /\ OwnSchedule(k)
          /\ \A j \in Callers \ {k} : StepOf(j) => Slot(k)' = Slot(k)]_vars

\* two calls in flight at once, at different points of their schedules
C19_Witness ==
    \E j, k \in Callers :
        /\ r_pc[j] = "sleep" /\ r_attempt[j] = 2
        /\ r_pc[k] = "attempt" /\ r_attempt[k] = 1

\* what the wrapped function did on attempt i of caller k's call
FuncAt(k, i) == Func(r_op[k], r_log[k][i])

\* the wrapped function of caller k's call failed transiently on every attempt
\* but the last, and returned on the last
SucceededAfterTransient(k) ==
    /\ Len(r_log[k]) >= 1
    /\ FuncAt(k, Len(r_log[k])) = "return"
    /\ \A i \in 1..(Len(r_log[k]) - 1) : FuncAt(k, i) \in Transient

\* C23: when the call wrapped by the retry decorator fails transiently j times
\* (0 <= j <= max_retries) and then succeeds, the wrapper makes j + 1 attempts
\* and no more, sleeps j times, and returns without an error; it does not give
\* up while only transient failures have been seen and retries are left.
C23_StopsAtFirstSuccess ==
    \A k \in Callers :
        /\ SucceededAfterTransient(k) =>
              /\ r_pc[k] = "done"
              /\ Len(r_log[k]) - 1 <= max_retries
              /\ Len(r_sleeps[k]) = Len(r_log[k]) - 1
              /\ r_outcome[k] = OpReturned
        /\ \A i \in 1..Len(r_log[k]) : FuncAt(k, i) = "return" => i = Len(r_log[k])
        /\ (r_pc[k] = "done" /\ \A i \in 1..Len(r_log[k]) : FuncAt(k, i) \in Transient)
              => Len(r_log[k]) = max_retries + 1

\* a call that succeeded on its last permitted attempt
C23_Witness ==
    \E k \in Callers :
        /\ SucceededAfterTransient(k)
        /\ Len(r_log[k]) = max_retries + 1
        /\ Len(r_sleeps[k]) = max_retries
        /\ r_outcome[k] = OpReturned

(***************************************************************************)
(* Values, their serialization and the stored bytes of the key-value       *)
(* client.  A text is a sequence of one-character strings; a byte string   *)
(* is a sequence of bytes, an ASCII byte written as its character and any   *)
(* other byte by its escape ("\\x80").                                      *)
(***************************************************************************)
\* Python values
PyNone == [t |-> "None", v |-> 0]
PyInt(n) == [t |-> "int", v |-> n]
PyStr(chars) == [t |-> "str", v |-> chars]
PyList(items) == [t |-> "list", v |-> items]
PyTuple(items) == [t |-> "tuple", v |-> items]
\* a dict is the sequence of its <<key text, value>> pairs in insertion order
PyDict(pairs) == [t |-> "dict", v |-> pairs]

DigitChars == <<"0", "1", "2", "3", "4", "5", "6", "7", "8", "9">>
DigitSet == {DigitChars[i] : i \in 1..10}
DigitVal(c) == (CHOOSE i \in 1..10 : DigitChars[i] = c) - 1

\* the decimal text of a natural number
RECURSIVE Digits(_)
Digits(n) == IF n < 10 THEN <<DigitChars[n + 1]>>
             ELSE Digits(n \div 10) \o <<DigitChars[(n % 10) + 1]>>

\* a string written without its quotes
JsonQuoteBare(chars) == chars

\* json.dumps of a str whose characters need no escape
JsonQuote(chars) == <<"\"">> \o chars \o <<"\"">>

\* json.dumps with its default separators ", " and ": "; a tuple is written
\* as an array
RECURSIVE JsonDumps(_), JoinItems(_), JoinMembers(_)
JsonDumps(val) ==
    CASE val.t = "int" -> Digits(val.v)
      [] val.t = "str" -> JsonQuote(val.v)
      [] val.t \in {"list", "tuple"} -> <<"[">> \o JoinItems(val.v) \o <<"]">>
      [] val.t = "dict" -> <<"{">> \o JoinMembers(val.v) \o <<"}">>
      [] val.t = "None" -> <<"n", "u", "l", "l">>

JoinItems(items) ==
    IF Len(items) = 0 THEN <<>>
    ELSE JsonDumps(items[1]) \o
         (IF Len(items) > 1 THEN <<",", " ">> \o JoinItems(Tail(items)) ELSE <<>>)

JoinMembers(pairs) ==
    IF Len(pairs) = 0 THEN <<>>
    ELSE JsonQuote(pairs[1][1]) \o <<":", " ">> \o JsonDumps(pairs[1][2]) \o
         (IF Len(pairs) > 1 THEN <<",", " ">> \o JoinMembers(Tail(pairs)) ELSE <<>>)

\* json.loads, for the grammar of naturals, strings without escapes, arrays,
\* objects and null; a parse step yields the value and the text left over
ParseFail == [ok |-> FALSE, val |-> PyNone, rest |-> <<>>]
Parsed(val, rest) == [ok |-> TRUE, val |-> val, rest |-> rest]

JsonWs == {" ", "\t", "\n", "\r"}

RECURSIVE SkipWs(_)
SkipWs(s) == IF Len(s) > 0 /\ s[1] \in JsonWs THEN SkipWs(Tail(s)) ELSE s

\* length of the number at the head of s: "0", or digits not starting with 0
RECURSIVE DigitRun(_)
DigitRun(s) == IF Len(s) > 0 /\ s[1] \in DigitSet THEN 1 + DigitRun(Tail(s)) ELSE 0
NumberLen(s) == IF s[1] = "0" THEN 1 ELSE DigitRun(s)

RECURSIVE NumVal(_)
NumVal(ds) == IF Len(ds) = 0 THEN 0
              ELSE NumVal(SubSeq(ds, 1, Len(ds) - 1)) * 10 + DigitVal(ds[Len(ds)])

\* a fraction or an exponent follows: a float, outside this grammar
FloatTail(s) == Len(s) > 0 /\ s[1] \in {".", "e", "E"}

ParseNumber(s) ==
    LET n == NumberLen(s)
        rest == SubSeq(s, n + 1, Len(s))
    IN  IF FloatTail(rest) THEN ParseFail ELSE Parsed(PyInt(NumVal(SubSeq(s, 1, n))), rest)

\* s starts after the opening quote; control characters and escapes end the parse
ParseString(s) ==
    IF \E i \in 1..Len(s) : s[i] = "\""
    THEN LET i == CHOOSE j \in 1..Len(s) :
                     s[j] = "\"" /\ \A h \in 1..(j - 1) : s[h] # "\""
             body == SubSeq(s, 1, i - 1)
         IN  IF \E h \in 1..Len(body) : body[h] \in {"\n", "\t", "\r", "\\"}
             THEN ParseFail
             ELSE Parsed(PyStr(body), SubSeq(s, i + 1, Len(s)))
    ELSE ParseFail

StartsWithNull(s) == Len(s) >= 4 /\ SubSeq(s, 1, 4) = <<"n", "u", "l", "l">>

RECURSIVE ParseValue(_), ParseElems(_, _), ParseMembers(_, _)
ParseValue(s) ==
    LET u == SkipWs(s)
    IN  IF Len(u) = 0 THEN ParseFail
        ELSE IF u[1] \in DigitSet THEN ParseNumber(u)
        ELSE IF u[1] = "\"" THEN ParseString(Tail(u))
        ELSE IF u[1] = "[" THEN
            LET w == SkipWs(Tail(u))
            IN  IF Len(w) > 0 /\ w[1] = "]" THEN Parsed(PyList(<<>>), Tail(w))
                ELSE ParseElems(w, <<>>)
        ELSE IF u[1] = "{" THEN
            LET w == SkipWs(Tail(u))
            IN  IF Len(w) > 0 /\ w[1] = "}" THEN Parsed(PyDict(<<>>), Tail(w))
                ELSE ParseMembers(w, <<>>)
        ELSE IF StartsWithNull(u) THEN Parsed(PyNone, SubSeq(u, 5, Len(u)))
        ELSE ParseFail

\* the elements of an array after "[" or ",", up to and including "]"
ParseElems(s, acc) ==
    LET r == ParseValue(s)
        w == SkipWs(r.rest)
    IN  IF ~r.ok \/ Len(w) = 0 THEN ParseFail
        ELSE IF w[1] = "," THEN ParseElems(Tail(w), Append(acc, r.val))
        ELSE IF w[1] = "]" THEN Parsed(PyList(Append(acc, r.val)), Tail(w))
        ELSE ParseFail

\* the members of an object after "{" or ",", up to and including "}"
ParseMembers(s, acc) ==
    LET u == SkipWs(s)
        k == IF Len(u) > 0 /\ u[1] = "\"" THEN ParseString(Tail(u)) ELSE ParseFail
        c == SkipWs(k.rest)
        r == IF k.ok /\ Len(c) > 0 /\ c[1] = ":" THEN ParseValue(Tail(c)) ELSE ParseFail
        w == SkipWs(r.rest)
    IN  IF ~r.ok \/ Len(w) = 0 THEN ParseFail
        ELSE IF w[1] = "," THEN ParseMembers(Tail(w), Append(acc, <<k.val.v, r.val>>))
        ELSE IF w[1] = "}" THEN Parsed(PyDict(Append(acc, <<k.val.v, r.val>>)), Tail(w))
        ELSE ParseFail

\* json.loads(text): the whole text must be one value; ok = FALSE stands for
\* json.JSONDecodeError
JsonLoads(text) ==
    LET r == ParseValue(text)
    IN  IF r.ok /\ Len(SkipWs(r.rest)) = 0 THEN Parsed(r.val, <<>>) ELSE ParseFail

\* bytes that are not ASCII; in the byte strings of this model each of them is
\* an invalid UTF-8 start byte (a lone continuation byte)
NonAscii == {"\\x80", "\\x86", "\\x94", "\\x95"}

\* the bytes 0..7 by value
ByteNames == <<"\\x00", "\\x01", "\\x02", "\\x03", "\\x04", "\\x05", "\\x06", "\\x07">>
ByteOf(n) == ByteNames[n + 1]
IsSmallByte(b) == \E i \in 1..Len(ByteNames) : ByteNames[i] = b
ByteVal(b) == (CHOOSE i \in 1..Len(ByteNames) : ByteNames[i] = b) - 1

\* pickle.dumps, protocol 4, of None, a small int, or a pair of those: the
\* opcodes NONE, BININT1, TUPLE2 + MEMOIZE, framed when the body has 4 bytes
\* or more
RECURSIVE PickleBody(_)
PickleBody(val) ==
    CASE val.t = "None" -> <<"N">>
      [] val.t = "int" -> <<"K", ByteOf(val.v)>>
      [] val.t = "tuple" -> PickleBody(val.v[1]) \o PickleBody(val.v[2]) \o <<"\\x86", "\\x94">>

PickleDumps(val) ==
    LET body == PickleBody(val) \o <<".">>
        frame == IF Len(body) >= 4
                 THEN <<"\\x95", ByteOf(Len(body))>> \o [i \in 1..7 |-> "\\x00"]
                 ELSE <<>>
    IN  <<"\\x80", "\\x04">> \o frame \o body

\* pickle.loads as the unpickler's stack machine over the opcodes PROTO, FRAME,
\* NONE, BININT1, TUPLE2, MEMOIZE, INT (protocol 0) and STOP; ok = FALSE stands
\* for the exception it raises on anything else
RECURSIVE Unpickle(_, _)
Unpickle(b, stack) ==
    IF Len(b) = 0 THEN ParseFail
    ELSE LET op == b[1]
             n == Len(b)
         IN  IF op = "\\x80" THEN
                 IF n >= 2 THEN Unpickle(SubSeq(b, 3, n), stack) ELSE ParseFail
             ELSE IF op = "\\x95" THEN
                 IF n >= 9 THEN Unpickle(SubSeq(b, 10, n), stack) ELSE ParseFail
             ELSE IF op = "N" THEN Unpickle(Tail(b), Append(stack, PyNone))
             ELSE IF op = "K" THEN
                 IF n >= 2 /\ IsSmallByte(b[2])
                 THEN Unpickle(SubSeq(b, 3, n), Append(stack, PyInt(ByteVal(b[2]))))
                 ELSE ParseFail
             ELSE IF op = "\\x86" THEN
                 IF Len(stack) >= 2
                 THEN Unpickle(Tail(b),
                               Append(SubSeq(stack, 1, Len(stack) - 2),
                                      PyTuple(SubSeq(stack, Len(stack) - 1, Len(stack)))))
                 ELSE ParseFail
             ELSE IF op = "\\x94" THEN
                 IF Len(stack) >= 1 THEN Unpickle(Tail(b), stack) ELSE ParseFail
             ELSE IF op = "I" THEN
                 LET d == DigitRun(Tail(b))
                 IN  IF d >= 1 /\ n >= d + 2 /\ b[d + 2] = "\n"
                     THEN Unpickle(SubSeq(b, d + 3, n),
                                   Append(stack, PyInt(NumVal(SubSeq(b, 2, d + 1)))))
                     ELSE ParseFail
             ELSE IF op = "." THEN
                 IF Len(stack) >= 1 THEN Parsed(stack[Len(stack)], <<>>) ELSE ParseFail
             ELSE ParseFail

PickleLoads(b) == Unpickle(b, <<>>)

PyBytes(b) == [t |-> "bytes", v |-> b]

\* RedisClient._serialize_value, lines 180-187
_serialize_value(value) ==
    IF value.t \in {"dict", "list"} THEN PyStr(JsonDumps(value))
    ELSE IF value.t \in {"str", "bytes", "int"} THEN value
    ELSE PyBytes(PickleDumps(value))

\* what the store keeps for a value handed to self._client.set: the UTF-8
\* bytes of a str (ASCII here), the decimal text of an int, bytes as they are
RedisEncode(x) == IF x.t = "int" THEN Digits(x.v) ELSE x.v

\* bytes.decode("utf-8"); ok = FALSE stands for UnicodeDecodeError
Utf8Decode(b) ==
    IF \E i \in 1..Len(b) : b[i] \in NonAscii THEN ParseFail ELSE Parsed(PyStr(b), <<>>)

ValueReturned(val) == [kind |-> "returned", val |-> val]
ValueRaised(exc) == [kind |-> exc, val |-> PyNone]

\* the key holds nothing / holds the bytes b
Missing == [present |-> FALSE, bytes |-> <<>>]
Holds(b) == [present |-> TRUE, bytes |-> b]

\* lines 204-213: pickle.loads on the original bytes, else the decoded text
PickleTier(value, decoded_value) ==
    LET p == PickleLoads(value)
    IN  IF p.ok THEN ValueReturned(p.val) ELSE ValueReturned(decoded_value)

\* RedisClient._deserialize_value, lines 189-215, on what self._client.get
\* returned
_deserialize_value(stored, deserialize_json) ==
    IF ~stored.present THEN ValueReturned(PyNone)
    ELSE LET d == Utf8Decode(stored.bytes)
         IN  \* lines 196-198 run before any try
             IF ~d.ok THEN ValueRaised("UnicodeDecodeError")
             ELSE IF deserialize_json
             THEN LET j == JsonLoads(d.val.v)
                  IN  IF j.ok THEN ValueReturned(j.val)
                      ELSE PickleTier(stored.bytes, d.val)
             ELSE ValueReturned(d.val)

\* lines 243-247 of get: any exception of the body becomes RedisOperationError
Translate(out) ==
    IF out.kind = "returned" THEN out ELSE ValueRaised("RedisOperationError")

\* values handed to set_kv
Values ==
    << PyDict(<< <<(<<"a">>), PyInt(1)>>, <<(<<"b">>), PyList(<<PyInt(2), PyInt(3)>>)>> >>),
       PyList(<<PyInt(1), PyStr(<<"x">>), PyNone>>),
       PyDict(<<>>),
       PyList(<<>>),
       PyDict(<< <<(<<"k">>), PyStr(<<"1", "2">>)>>,
                 <<(<<"n">>), PyList(<<PyList(<<PyInt(0)>>),
                                       PyDict(<< <<(<<"z">>), PyInt(10)>> >>)>>)>> >>),
       PyStr(<<"h", "e", "l", "l", "o">>),
       PyStr(<<"1", "2">>),
       PyStr(<<"I", "1", "\n", ".">>),
       PyStr(<<"{", "\"", "a", "\"", ":", " ", "1">>),
       PyInt(7),
       PyNone,
       PyTuple(<<PyInt(1), PyInt(2)>>) >>

\* mappings and sequences
Structured(value) == value.t \in {"dict", "list"}

NoGet == [done |-> FALSE, deserialize_json |-> FALSE, stored |-> Missing,
          out |-> ValueReturned(PyNone)]
NoHealthCheck == [done |-> FALSE, remote |-> "ok", pings |-> 0, out |-> FALSE,
                  raised |-> "none"]

ClientInit ==
    /\ config = DefaultConfig
    /\ kv_store = Missing
    /\ kv_written = 0
    /\ kv_get = NoGet
    /\ hc = NoHealthCheck

\* RedisClient.set_kv, lines 218-235, with a remote set that succeeds
set_kv(vi) ==
    /\ UNCHANGED <<OutsideClient, config, kv_get, hc>>
    /\ kv_store' = Holds(RedisEncode(_serialize_value(Values[vi])))
    /\ kv_written' = vi

\* RedisClient.get, lines 237-247, with a remote get that succeeds
get(deserialize_json) ==
    /\ UNCHANGED <<OutsideClient, config, kv_store, kv_written, hc>>
    /\ kv_get' = [done |-> TRUE, deserialize_json |-> deserialize_json,
                  stored |-> kv_store,
                  out |-> Translate(_deserialize_value(kv_store, deserialize_json))]

\* an except clause that catches only the connectivity errors
HealthCheckOutcomeNarrow(remote) ==
    IF remote = "ok" THEN [out |-> TRUE, raised |-> "none"]
    ELSE IF remote \in Transient THEN [out |-> FALSE, raised |-> "none"]
    ELSE [out |-> FALSE, raised |-> remote]

\* lines 164-171: True after the ping, False from `except Exception`
HealthCheckOutcome(remote) ==
    IF remote = "ok" THEN [out |-> TRUE, raised |-> "none"]
    ELSE [out |-> FALSE, raised |-> "none"]

\* RedisClient.health_check, lines 162-171: not decorated, it calls
\* self._client.ping() once; self._client is never None on a constructed client
health_check(remote) ==
    /\ UNCHANGED <<OutsideClient, config, kv_store, kv_written, kv_get>>
    /\ hc' = [done |-> TRUE, remote |-> remote, pings |-> 1,
              out |-> HealthCheckOutcome(remote).out,
              raised |-> HealthCheckOutcome(remote).raised]

\* C17: health_check never raises: whether the store is reachable, unreachable
\* or failing with any error it returns a boolean, false whenever the ping
\* fails, and it pings once, without retry.
C17_HealthCheckNeverRaises ==
    hc.done =>
        /\ hc.raised = "none"
        /\ hc.out \in BOOLEAN
        /\ hc.remote # "ok" => hc.out = FALSE
        /\ hc.remote = "ok" => hc.out = TRUE
        /\ hc.pings = 1

C17_Witness == hc.done /\ hc.remote = "ResponseError" /\ hc.out = FALSE

\* the last get read stored bytes with JSON decoding on
ReadWithJson == kv_get.done /\ kv_get.deserialize_json /\ kv_get.stored.present

\* C16: deserialization never raises: a read of any stored bytes with JSON
\* decoding on reports no error and returns the JSON-parsed value, or else the
\* unpickled value, or else the decoded text; bytes that are neither JSON nor a
\* pickle, and the bytes the pickle fallback of the serialization wrote, come
\* back without an error.
C16_DeserializationNeverRaises ==
    ReadWithJson =>
        LET b == kv_get.stored.bytes
            j == JsonLoads(b)
            p == PickleLoads(b)
        IN  /\ kv_get.out.kind = "returned"
            /\ j.ok => kv_get.out.val = j.val
            /\ (~j.ok /\ p.ok) => kv_get.out.val = p.val
            /\ (~j.ok /\ ~p.ok) => kv_get.out.val = PyStr(b)

\* the last get read, with JSON decoding on, what the last set_kv wrote, and
\* that was a mapping or a sequence
ReadBackStructured ==
    /\ ReadWithJson
    /\ kv_written # 0
    /\ Structured(Values[kv_written])
    /\ kv_get.stored = kv_store

RECURSIVE SumOver(_, _)
SumOver(f, S) ==
    IF S = {} THEN 0
    ELSE LET x == CHOOSE y \in S : TRUE
         IN  f[x] + SumOver(f, S \ {x})

\* number of Connection references in callers' hands
TotalHeld == SumOver([c \in ConnIds |-> HeldCount(c)], ConnIds)

SomeoneWaits == \E t \in Threads : pc[t] = "wait"

\* t was handed c in this step
Handed(t, c) == held'[t][c] = held[t][c] + 1

\* t gave c back in this step
GaveBack(t, c) == held'[t][c] = held[t][c] - 1

\* C1: with callers that release once per acquire, no Connection is held twice
\* (by two callers or by one), and none is both in the idle list and held.
C1_ExclusiveOwnership ==
    \A c \in ConnIds : HeldCount(c) + CountIn(available_connections, c) <= 1

C3_ExactlyNImmediate ==
    ~any_release =>
        /\ \A c \in ConnIds : HeldCount(c) <= 1
        /\ TotalHeld <= InitialMaxConnections
        /\ SomeoneWaits => TotalHeld = InitialMaxConnections

\* C4: a get_connection that went through the polling wait and found a released
\* Connection returns it: no call ever comes back with None.
C4_WaiterReceivesConnection == result.kind # "None"

\* C6 as claimed: a waiter for whom nothing was released ends in TimeoutError
\* with nothing handed out, and a TimeoutError is raised only when the idle
\* list is empty and no capacity remains.
C6_TimeoutOnlyWhenNothingIdle ==
    [][\A t \in Threads :
          (pc[t] = "wait" /\ pc'[t] = "idle") =>
              /\ ~rel_since[t] => (result' = RaisedTimeoutError(t) /\ held' = held)
              /\ result'.kind = "TimeoutError" =>
                    (available_connections = <<>> /\ max_connections <= 0)]_vars

\* C6 amended: a waiter for whom nothing was released ends in TimeoutError with
\* nothing handed out; a caller enters the wait only with the idle list empty
\* and the capacity used up; a TimeoutError is raised only once the whole
\* window has elapsed, and an idle Connection present at that moment was
\* released during the wait.
C6_TimeoutAfterWindow ==
    [][\A t \in Threads :
          /\ (pc[t] = "idle" /\ pc'[t] = "wait") =>
                (available_connections = <<>> /\ max_connections <= 0)
          /\ (pc[t] = "wait" /\ pc'[t] = "idle") =>
                /\ ~rel_since[t] => (result' = RaisedTimeoutError(t) /\ held' = held)
                /\ result'.kind = "TimeoutError" =>
                      /\ elapsed[t] >= timeout
                      /\ max_connections <= 0
                      /\ available_connections # <<>> => rel_since[t]
          /\ (result'.t = t /\ result'.kind = "TimeoutError" /\ result' # result) =>
                pc[t] = "wait"]_vars

\* C6 witness: a call that found nothing idle and no capacity has waited the
\* whole window with no release and ended in TimeoutError.
C6_Witness ==
    /\ result.kind = "TimeoutError"
    /\ available_connections = <<>>
    /\ max_connections = 0
    /\ ~any_release

\* C7: release pushes on top of the idle list, every removal from the idle list
\* takes its top, and a get_connection that finds the idle list non-empty hands
\* out that top: the most recently released Connection still idle (B before A
\* after releasing A then B).
C7_LastInFirstOut ==
    [][\A t \in Threads, c \in ConnIds :
          /\ GaveBack(t, c) =>
                /\ Len(available_connections') = Len(available_connections) + 1
                /\ available_connections'[Len(available_connections')] = c
                /\ SubSeq(available_connections', 1, Len(available_connections))
                       = available_connections
          /\ Len(available_connections') < Len(available_connections) =>
                available_connections'
                    = SubSeq(available_connections, 1, Len(available_connections) - 1)
          /\ (Handed(t, c) /\ available_connections # <<>>) =>
                /\ c = available_connections[Len(available_connections)]
                /\ Len(available_connections') < Len(available_connections)]_vars

\* C7 witness: the last call was a get_connection that took B from an idle list
\* filled by releases, and A, released before B, is now on top of it.
C7_Witness ==
    /\ any_release
    /\ result.kind = "Connection"
    /\ Len(available_connections) >= 1
    /\ available_connections[Len(available_connections)] # result.conn
    /\ HeldCount(available_connections[Len(available_connections)]) = 0

\* C21: with callers that release once per acquire, after every call (those
\* that go through the polling wait included) each Connection the pool has
\* created is in the idle list or held by a caller that was handed it, and a
\* Connection leaves the idle list only by being handed to a caller.
C21_ConnectionConservation ==
    [][/\ \A c \in 1..created' :
             CountIn(available_connections', c) > 0 \/ SumHeld(held', c, Threads) > 0
       /\ Len(available_connections') < Len(available_connections) =>
             \E t \in Threads : Handed(t, PopValue(available_connections))]_vars

\* C22: with callers that release once per acquire, the idle list holds each
\* Connection at most once and never more Connections than have been created.
C22_IdleSetIntegrity ==
    /\ \A c \in ConnIds : CountIn(available_connections, c) <= 1
    /\ Len(available_connections) <= created

(***************************************************************************)
(* Specifications: one per component, all from the same initial state.     *)
(***************************************************************************)
Init == PoolInit /\ ConnInit /\ RedisInit /\ ClientInit

Next ==
    \/ \E t \in Threads : get_connection(t)
    \/ \E t \in Threads : wait_and_pop_connection(t)
    \/ \E t \in Threads, c \in ConnIds : release_connection(t, c)
    \/ Tick

Spec == Init /\ [][Next]_vars

ConcNext ==
    \/ \E t \in Threads : c_len_check(t)
    \/ \E t \in Threads : c_pop(t)
    \/ \E t \in Threads : c_check_max(t)
    \/ \E t \in Threads : c_connect(t)
    \/ \E t \in Threads : c_append(t)
    \/ \E t \in Threads : c_dec_load(t)
    \/ \E t \in Threads : c_dec_store(t)
    \/ \E t \in Threads : c_wait_check(t)
    \/ \E t \in Threads : c_wait_pop(t)
    \/ \E t \in Threads, c \in ConnIds : release_connection(t, c)
    \/ Tick

ConcSpec == Init /\ [][ConcNext]_vars

ExecNext ==
    \E qi \in 1..Len(Queries), params \in ParamsValues, d \in DriverBehaviours :
        execute(qi, params, d)

ExecSpec == Init /\ [][ExecNext]_vars

RetryNext ==
    \/ \E k \in Callers, op \in Ops : r_call(k, op)
    \/ \E k \in Callers, remote \in RemoteOutcomes : r_attempt_step(k, remote)
    \/ \E k \in Callers : r_wake(k)

RetrySpec == Init /\ [][RetryNext]_vars

\* a client constructed with any of the configurations, then used by one caller
ConfigNext ==
    \/ \E cfg \in Configs : RedisClient_init(cfg)
    \/ \E op \in Ops : r_call(1, op)
    \/ \E remote \in RemoteOutcomes : r_attempt_step(1, remote)
    \/ r_wake(1)

ConfigSpec == Init /\ [][ConfigNext]_vars

\* one Connection built with or without a handle, then used for statements,
\* committed, rolled back and closed in any order
LifecycleNext ==
    \/ \E h \in {"handle", "None"} : Connection_init(h)
    \/ \E qi \in {1, 4}, d \in {x \in DriverBehaviours : x.rows = <<>>} :
           execute(qi, "None", d)
    \/ \E b \in HandleBehaviours : commit(b)
    \/ \E b \in HandleBehaviours : rollback(b)
    \/ \E b \in HandleBehaviours : close(b)

LifecycleSpec == Init /\ [][LifecycleNext]_vars

\* writes and reads of one key, and health checks, through one client
StoreNext ==
    \/ \E vi \in 1..Len(Values) : set_kv(vi)
    \/ \E deserialize_json \in BOOLEAN : get(deserialize_json)
    \/ \E remote \in RemoteOutcomes : health_check(remote)

StoreSpec == Init /\ [][StoreNext]_vars

====
